---- MODULE Spec2Model ----
(***************************************************************************)
(* Model of the conversation turn of app1.py: chat(message, history)       *)
(* builds the working conversation, issues the first completion call with  *)
(* the tool specs, dispatches the requested google_search calls, issues    *)
(* the second completion call and returns the reply text.                  *)
(***************************************************************************)
EXTENDS Integers, Sequences, FiniteSets, TLC

(* ---------------------------- bounds ----------------------------------- *)
MaxHist == 2
MaxToolCalls == 2
MaxOrganic == 3

(* ---------------------------- values ----------------------------------- *)
\* Python's None, as a content or a field that is not there.
None == "<None>"

\* The empty sequence of tool-call requests.
NoCalls == <<>>

USER_NAME == "Ada"
USER_ROLE == "Engineer"
MODEL_NAME == "model"
GLOBAL_CONTEXT == "X"

\* The names of the registered tool specs (one entry).
tools == {"google_search"}

system_prompt ==
    "You are acting as " \o USER_NAME \o ", a " \o USER_ROLE
        \o " ## RESUME CONTEXT " \o GLOBAL_CONTEXT

\* A message of the conversation.
Message(role, content, id, calls) ==
    [role |-> role, content |-> content, tool_call_id |-> id,
     tool_calls |-> calls]

SystemMsg == Message("system", system_prompt, None, NoCalls)
UserMsg(c) == Message("user", c, None, NoCalls)
AssistantMsg(c) == Message("assistant", c, None, NoCalls)
ToolMsg(id, res) == Message("tool", res, id, NoCalls)

(* ------------------------ history entries ------------------------------ *)
\* An entry of the caller's history: a list/tuple of elems, a dict, or a
\* value of neither type.
PairEntry(elems) == [shape |-> "pair", elems |-> elems, msg |-> UserMsg(None)]
DictEntry(m) == [shape |-> "dict", elems |-> <<>>, msg |-> m]
OtherEntry == [shape |-> "other", elems |-> <<>>, msg |-> UserMsg(None)]

Entries ==
    { PairEntry(<<>>), PairEntry(<<"u">>), PairEntry(<<"u", "">>),
      PairEntry(<<"u", "a">>),
      DictEntry(AssistantMsg("da")),
      DictEntry(Message("system", "ds", None, NoCalls)),
      OtherEntry }

SeqsUpTo(S, n) == UNION { [1..k -> S] : k \in 0..n }

Histories == SeqsUpTo(Entries, MaxHist)

\* Python truthiness of a content value.
Truthy(v) == v # None /\ v # ""

\* Lines 108-112: what one entry appends to messages, or the exception the
\* entry raises.
EntryRaises(entry) == entry.shape = "pair" /\ Len(entry.elems) = 0

\* Mutant of EntryMessages: the test of entry[1] at line 110 is dropped.
EntryMessagesAnyAssistant(entry) ==
    IF entry.shape = "pair"
    THEN <<UserMsg(entry.elems[1])>>
            \o (IF Len(entry.elems) > 1
                THEN <<AssistantMsg(entry.elems[2])>> ELSE <<>>)
    ELSE IF entry.shape = "dict" THEN <<entry.msg>>
    ELSE <<>>

EntryMessages(entry) ==
    IF entry.shape = "pair"
    THEN <<UserMsg(entry.elems[1])>>
            \o (IF Len(entry.elems) > 1 /\ Truthy(entry.elems[2])
                THEN <<AssistantMsg(entry.elems[2])>> ELSE <<>>)
    ELSE IF entry.shape = "dict" THEN <<entry.msg>>
    ELSE <<>>

RECURSIVE BuildFrom(_, _)
\* The loop of lines 107-112 from entry k on.
BuildFrom(h, k) ==
    IF k > Len(h) THEN <<>> ELSE EntryMessages(h[k]) \o BuildFrom(h, k + 1)

\* Mutant of BuildMessages: the new user message is appended before the
\* history instead of after it.
BuildMessagesUserFirst(h, m) == <<SystemMsg, UserMsg(m)>> \o BuildFrom(h, 1)

\* Lines 106-113.
BuildRaises(h) == \E k \in 1..Len(h) : EntryRaises(h[k])
BuildMessages(h, m) == <<SystemMsg>> \o BuildFrom(h, 1) \o <<UserMsg(m)>>

(* --------------------------- tool calls -------------------------------- *)
\* The argument payloads a tool-call request may carry (JSON-encoded text).
ArgsOk == "{\"query\": \"Acme\"}"
ArgsNoQuery == "{}"
ArgsBadJson == "{bad"

ArgPayloads == {ArgsOk, ArgsNoQuery, ArgsBadJson}

\* json.loads (line 130): the decoded value, or the exception it raises.
json_loads(s) ==
    CASE s = ArgsOk -> [raises |-> None, keys |-> {"query"}, query |-> "Acme"]
      [] s = ArgsNoQuery -> [raises |-> None, keys |-> {}, query |-> None]
      [] OTHER -> [raises |-> "JSONDecodeError", keys |-> {}, query |-> None]

\* google_search(**args) (lines 23, 131): binding the decoded arguments to
\* the one parameter query raises TypeError unless the keys are exactly it.
BindRaises(args) == args.keys # {"query"}

\* The id the backend gives the i-th request of a response.
CallId(i) == "c" \o ToString(i)

ToolCallRequest(i, name, arguments) ==
    [id |-> CallId(i), name |-> name, arguments |-> arguments]

CallKinds ==
    { <<"google_search", ArgsOk>>, <<"google_search", ArgsNoQuery>>,
      <<"google_search", ArgsBadJson>>, <<"get_weather", ArgsOk>> }

\* The non-empty tool_calls lists of at most n requests.
ToolCallLists(n) ==
    { [i \in 1..Len(f) |-> ToolCallRequest(i, f[i][1], f[i][2])] :
        f \in SeqsUpTo(CallKinds, n) \ {<<>>} }

(* ------------------------- search adapter ------------------------------ *)
\* What requests.post (line 32) can come back with: a raised network
\* error, or a response with a status and a body.
HttpOutcome(kind, status, body, has_organic, organic) ==
    [kind |-> kind, status |-> status, body |-> body,
     has_organic |-> has_organic, organic |-> organic]

NoHttp == HttpOutcome("none", 0, None, FALSE, <<>>)

Organic(n) == [i \in 1..n |-> "r" \o ToString(i)]

HttpOutcomes ==
    { HttpOutcome("neterr", 0, None, FALSE, <<>>),
      HttpOutcome("response", 500, "text", FALSE, <<>>),
      HttpOutcome("response", 200, "array", FALSE, <<>>),
      HttpOutcome("response", 403, "object", FALSE, <<>>) }
    \cup { HttpOutcome("response", 200, "object", TRUE, Organic(n)) :
            n \in 0..MaxOrganic }

\* Mutant of Take: the slice keeps one entry more.
TakeOneMore(s, n) == SubSeq(s, 1, IF Len(s) < n + 1 THEN Len(s) ELSE n + 1)

\* The slice [:n] of a list.
Take(s, n) == SubSeq(s, 1, IF Len(s) < n THEN Len(s) ELSE n)

RECURSIVE Join(_)
Join(s) ==
    IF Len(s) = 0 THEN ""
    ELSE IF Len(s) = 1 THEN "\"" \o s[1] \o "\""
    ELSE "\"" \o s[1] \o "\", " \o Join(Tail(s))

\* json.dumps of a list of results (line 34).
json_dumps(s) == "[" \o Join(s) \o "]"

\* Lines 31-36: the text google_search returns for an outcome of the POST.
google_search(query, o) ==
    IF o.kind = "neterr" THEN "Search Error: " \o "ConnectionError"
    ELSE IF o.body = "text" THEN "Search Error: " \o "JSONDecodeError"
    ELSE IF o.body = "array" THEN "Search Error: " \o "AttributeError"
    ELSE json_dumps(Take(IF o.has_organic THEN o.organic ELSE <<>>, 2))

(* ------------------------ completion backend --------------------------- *)
\* The message of a completion response: choices[0].message.
Response(content, is_null, calls) ==
    [content |-> content, tool_calls_null |-> is_null, tool_calls |-> calls]

\* A response variable that is not bound yet.
NoResponse == Response("<unbound>", TRUE, NoCalls)

\* Line 125: the truth value of msg.tool_calls.
HasToolCalls(m) == ~m.tool_calls_null /\ Len(m.tool_calls) > 0

FirstResponses ==
    { Response(c, n, NoCalls) : c \in {"", "I am Ada", None}, n \in BOOLEAN }
    \cup { Response(None, FALSE, t) : t \in ToolCallLists(MaxToolCalls) }

SecondResponses ==
    { Response(c, TRUE, NoCalls) : c \in {"", "Acme is"} }
    \cup { Response("Acme is", FALSE,
                    <<ToolCallRequest(1, "google_search", ArgsOk)>>) }

\* The exceptions a completion call raises (timeout=120.0 at line 83).
BackendErrors == {"APITimeoutError", "APIError"}

\* A request of client.chat.completions.create.
Request(msgs, with_tools) ==
    [model |-> MODEL_NAME, messages |-> msgs, with_tools |-> with_tools,
     tools |-> IF with_tools THEN tools ELSE {}]

(* ------------------------------ state ---------------------------------- *)
VARIABLES
    history,    \* the caller's history argument
    message,    \* the caller's message argument
    messages,   \* chat's working conversation
    pc,         \* where the turn is
    msg,        \* the first response's message (line 122)
    idx,        \* position of the loop of line 128 in msg.tool_calls
    calls,      \* the completion requests issued so far, in order
    executed,   \* the google_search invocations made so far, in order
    final_res,  \* the second response's message (line 135)
    http,       \* the outcome of the last POST of google_search
    caught,     \* the exception the handler of line 141 caught, and where
    ret         \* how chat ended: its return value or the exception raised

vars ==
    <<history, message, messages, pc, msg, idx, calls, executed, final_res,
      http, caught, ret>>

\* No exception caught; and an exception of type e raised at a place.
NoException == [at |-> None, type |-> None]
Exception(at, e) == [at |-> at, type |-> e]

Running == [kind |-> "running", value |-> None]
Return(v) == [kind |-> "return", value |-> v]
Raise(e) == [kind |-> "raise", value |-> e]

\* Line 143: the text returned by the handler of line 141.
SystemError(e) == "System Error: " \o e

\* Mutant of ReplyOf: an empty content is reported as an error.
ReplyOfNonEmpty(m) ==
    IF Truthy(m.content) THEN m.content ELSE SystemError("empty reply")

\* Lines 136 and 139: the reply taken from a response's message.
ReplyOf(m) == m.content

\* Line 126: the response's message as it stands in the conversation.
AsMessage(m) == Message("assistant", m.content, None, m.tool_calls)

\* Line 132: the tool message for a request and the adapter's text.
ToolResult(tc, res) == ToolMsg(tc.id, res)

\* Lines 120 and 135: whether the call passes tools=tools.
FirstCallTools == TRUE

\* Mutant of SecondCallTools: the second call passes the tool specs too.
SecondCallWithTools == TRUE

SecondCallTools == FALSE

Init ==
    /\ history \in Histories
    /\ message = "Q"
    /\ messages = <<>>
    /\ pc = "build"
    /\ msg = NoResponse
    /\ idx = 0
    /\ calls = <<>>
    /\ executed = <<>>
    /\ final_res = NoResponse
    /\ http = NoHttp
    /\ caught = NoException
    /\ ret = Running

\* Mutant of Build: the new user message is appended to the caller's list
\* as well.
BuildInPlace ==
    /\ pc = "build"
    /\ ~BuildRaises(history)
    /\ messages' = BuildMessages(history, message)
    /\ history' = Append(history, DictEntry(UserMsg(message)))
    /\ pc' = "first"
    /\ UNCHANGED <<message, msg, idx, calls, executed, http, ret, final_res,
                   caught>>

\* Lines 106-113 without an exception: the conversation is built.
Build ==
    /\ pc = "build"
    /\ ~BuildRaises(history)
    /\ messages' = BuildMessages(history, message)
    /\ pc' = "first"
    /\ UNCHANGED <<history, message, msg, idx, calls, executed, http, ret,
                   final_res, caught>>

\* Line 109 on an empty list or tuple: entry[0] raises IndexError, outside
\* the try of line 115, so chat raises it to its caller.
BuildFails ==
    /\ pc = "build"
    /\ BuildRaises(history)
    /\ pc' = "done"
    /\ ret' = Raise("IndexError")
    /\ UNCHANGED <<history, message, messages, msg, idx, calls, executed,
                   http, final_res, caught>>

\* Lines 117-121: the first completion request goes out.
FirstCall ==
    /\ pc = "first"
    /\ calls' = Append(calls, Request(messages, FirstCallTools))
    /\ pc' = "await1"
    /\ UNCHANGED <<history, message, messages, msg, idx, executed, http, ret,
                   final_res, caught>>

\* Mutant of FirstCallFails: a failed first call is issued once more.
FirstCallFailsRetry(e) ==
    /\ pc = "await1"
    /\ IF Len(calls) < 2
       THEN /\ calls' = Append(calls, Request(messages, FirstCallTools))
            /\ UNCHANGED <<pc, caught, ret>>
       ELSE /\ pc' = "done"
            /\ caught' = Exception("first", e)
            /\ ret' = Return(SystemError(e))
            /\ calls' = calls
    /\ UNCHANGED <<history, message, messages, msg, idx, executed, final_res,
                   http>>

\* Lines 117-121 raise (timeout, network or API error): lines 141-143.
FirstCallFails(e) ==
    /\ pc = "await1"
    /\ pc' = "done"
    /\ caught' = Exception("first", e)
    /\ ret' = Return(SystemError(e))
    /\ UNCHANGED <<history, message, messages, msg, idx, calls, executed,
                   final_res, http>>

\* Mutant of FirstCallResponds: line 126 is missing, the response's message
\* is not appended before the tools are dispatched.
FirstCallRespondsNoAppend(r) ==
    /\ pc = "await1"
    /\ msg' = r
    /\ IF HasToolCalls(r)
       THEN /\ idx' = 1
            /\ pc' = "dispatch"
            /\ UNCHANGED <<messages, ret>>
       ELSE /\ pc' = "done"
            /\ ret' = Return(ReplyOf(r))
            /\ UNCHANGED <<messages, idx>>
    /\ UNCHANGED <<history, message, calls, executed, http, final_res,
                   caught>>

\* Lines 122-126 and 138-139: the first response arrives.
FirstCallResponds(r) ==
    /\ pc = "await1"
    /\ msg' = r
    /\ IF HasToolCalls(r)
       THEN /\ messages' = Append(messages, AsMessage(r))
            /\ idx' = 1
            /\ pc' = "dispatch"
            /\ ret' = ret
       ELSE /\ pc' = "done"
            /\ ret' = Return(ReplyOf(r))
            /\ UNCHANGED <<messages, idx>>
    /\ UNCHANGED <<history, message, calls, executed, http, final_res,
                   caught>>

\* The request the loop of line 128 is at.
tool_call == msg.tool_calls[idx]

InLoop == pc = "dispatch" /\ idx <= Len(msg.tool_calls)

\* Line 129 false: the request names another tool; the loop moves on.
SkipTool ==
    /\ InLoop
    /\ tool_call.name # "google_search"
    /\ idx' = idx + 1
    /\ UNCHANGED <<history, message, messages, pc, msg, calls, executed,
                   http, ret, final_res, caught>>

\* Mutant of ArgumentsFail: the exception is caught inside the loop, which
\* goes on with the next request.
ArgumentsFailContinue ==
    /\ InLoop
    /\ tool_call.name = "google_search"
    /\ LET args == json_loads(tool_call.arguments) IN
        /\ args.raises # None \/ BindRaises(args)
        /\ caught' = IF args.raises # None
                     THEN Exception("json.loads", args.raises)
                     ELSE Exception("google_search(**args)", "TypeError")
    /\ idx' = idx + 1
    /\ UNCHANGED <<history, message, messages, pc, msg, calls, executed,
                   final_res, http, ret>>

\* Line 130 raises (the payload is not JSON), or line 131 raises TypeError
\* (the decoded arguments do not bind to query): lines 141-143.
ArgumentsFail ==
    /\ InLoop
    /\ tool_call.name = "google_search"
    /\ LET args == json_loads(tool_call.arguments) IN
        /\ args.raises # None \/ BindRaises(args)
        /\ caught' = IF args.raises # None
                     THEN Exception("json.loads", args.raises)
                     ELSE Exception("google_search(**args)", "TypeError")
    /\ pc' = "done"
    /\ ret' = Return(SystemError(caught'.type))
    /\ UNCHANGED <<history, message, messages, msg, idx, calls, executed,
                   final_res, http>>

\* Lines 130-131 and 24-32: the arguments decode and google_search posts
\* the query.
CallTool ==
    /\ InLoop
    /\ tool_call.name = "google_search"
    /\ LET args == json_loads(tool_call.arguments) IN
        /\ args.raises = None /\ ~BindRaises(args)
        /\ executed' =
            Append(executed, [id |-> tool_call.id, query |-> args.query])
    /\ pc' = "search"
    /\ UNCHANGED <<history, message, messages, msg, idx, calls, http, ret,
                   final_res, caught>>

\* Mutant of ToolReturns: a network error of the POST is not caught in
\* google_search and reaches the handler of line 141.
ToolReturnsRaising(o) ==
    /\ pc = "search"
    /\ http' = o
    /\ IF o.kind = "neterr"
       THEN /\ caught' = Exception("google_search", "ConnectionError")
            /\ pc' = "done"
            /\ ret' = Return(SystemError("ConnectionError"))
            /\ UNCHANGED <<messages, idx>>
       ELSE /\ LET res == google_search(executed[Len(executed)].query, o) IN
                messages' = Append(messages, ToolResult(tool_call, res))
            /\ idx' = idx + 1
            /\ pc' = "dispatch"
            /\ UNCHANGED <<caught, ret>>
    /\ UNCHANGED <<history, message, msg, calls, executed, final_res>>

\* Lines 32-36 and 132: the POST ends with outcome o, google_search returns
\* its text and the tool message is appended.
ToolReturns(o) ==
    /\ pc = "search"
    /\ http' = o
    /\ LET res == google_search(executed[Len(executed)].query, o) IN
        messages' = Append(messages, ToolResult(tool_call, res))
    /\ idx' = idx + 1
    /\ pc' = "dispatch"
    /\ UNCHANGED <<history, message, msg, calls, executed, ret, final_res,
                   caught>>

\* Line 135: the loop is over and the second completion request goes out.
SecondCall ==
    /\ pc = "dispatch"
    /\ idx > Len(msg.tool_calls)
    /\ calls' = Append(calls, Request(messages, SecondCallTools))
    /\ pc' = "await2"
    /\ UNCHANGED <<history, message, messages, msg, idx, executed, http, ret,
                   final_res, caught>>

\* Line 135 raises: lines 141-143.
SecondCallFails(e) ==
    /\ pc = "await2"
    /\ pc' = "done"
    /\ caught' = Exception("second", e)
    /\ ret' = Return(SystemError(e))
    /\ UNCHANGED <<history, message, messages, msg, idx, calls, executed,
                   final_res, http>>

\* Mutant of SecondCallResponds: the first response's content is returned.
SecondCallRespondsFirst(r) ==
    /\ pc = "await2"
    /\ final_res' = r
    /\ pc' = "done"
    /\ ret' = Return(ReplyOf(msg))
    /\ UNCHANGED <<history, message, messages, msg, idx, calls, executed,
                   http, caught>>

\* Line 136: the second response arrives and its content is returned.
SecondCallResponds(r) ==
    /\ pc = "await2"
    /\ final_res' = r
    /\ pc' = "done"
    /\ ret' = Return(ReplyOf(r))
    /\ UNCHANGED <<history, message, messages, msg, idx, calls, executed,
                   http, caught>>

Next ==
    \/ Build
    \/ BuildFails
    \/ FirstCall
    \/ \E e \in BackendErrors : FirstCallFails(e)
    \/ \E r \in FirstResponses : FirstCallResponds(r)
    \/ SkipTool
    \/ ArgumentsFail
    \/ CallTool
    \/ \E o \in HttpOutcomes : ToolReturns(o)
    \/ SecondCall
    \/ \E e \in BackendErrors : SecondCallFails(e)
    \/ \E r \in SecondResponses : SecondCallResponds(r)

Spec == Init /\ [][Next]_vars

(* ----------------------------- helpers --------------------------------- *)
\* The messages of a conversation that have a role.
WithRole(ms, role) == SelectSeq(ms, LAMBDA m : m.role = role)

\* Whether text begins with prefix.
StartsWith(text, prefix) ==
    Len(text) >= Len(prefix) /\ SubSeq(text, 1, Len(prefix)) = prefix

\* The first response arrived (line 122 bound msg).
FirstArrived == msg # NoResponse

\* What the turn appended to the conversation after the first response's
\* message, as sent with the second completion call.
AppendedForSecond ==
    SubSeq(calls[2].messages, Len(calls[1].messages) + 2,
           Len(calls[2].messages))

(* ------------------------------- C1 ------------------------------------ *)
\* C1: when the second completion call is issued, exactly N tool messages
\* have been appended after the assistant's message, N the number of
\* requests of the first response, the i-th with the i-th request's id.
C1_OneToolMessagePerRequest ==
    Len(calls) = 2 =>
        /\ Len(AppendedForSecond) = Len(msg.tool_calls)
        /\ \A i \in 1..Len(AppendedForSecond) :
            /\ AppendedForSecond[i].role = "tool"
            /\ AppendedForSecond[i].tool_call_id = msg.tool_calls[i].id

(* ------------------------------- C2 ------------------------------------ *)
\* C2: once the loop has passed a request that names an unregistered tool,
\* the conversation holds a tool message with that request's id and the
\* turn has not failed.
C2_UnknownToolAnswered ==
    (pc = "dispatch" /\ FirstArrived) =>
        \A i \in 1..(idx - 1) :
            msg.tool_calls[i].name \notin tools =>
                /\ \E k \in 1..Len(messages) :
                    /\ messages[k].role = "tool"
                    /\ messages[k].tool_call_id = msg.tool_calls[i].id
                /\ caught = NoException

(* ------------------------------- C3 ------------------------------------ *)
\* C3: chat never raises to its caller, and a turn in which an exception
\* was raised ends with a returned string that begins with System Error.
C3_NeverRaises ==
    /\ ret.kind # "raise"
    /\ (pc = "done" /\ caught # NoException) =>
        (ret.kind = "return" /\ StartsWith(ret.value, "System Error"))

(* ------------------------------- C4 ------------------------------------ *)
\* C4: a first response without tool calls (absent or empty) ends the turn
\* with exactly its content returned, after one completion call and no
\* tool execution.
C4_NoToolCallsReturnsContent ==
    (FirstArrived /\ ~HasToolCalls(msg)) =>
        /\ pc = "done"
        /\ ret = Return(msg.content)
        /\ Len(calls) = 1
        /\ executed = <<>>
        /\ messages = calls[1].messages

C4_Witness ==
    /\ FirstArrived
    /\ ~msg.tool_calls_null
    /\ msg.tool_calls = <<>>
    /\ msg.content = ""
    /\ ret = Return("")

(* ------------------------------- C5 ------------------------------------ *)
\* C5: at most two completion calls are issued, the first with the
\* registered tool specs and the second without any, and once the second
\* is issued no tool is executed and no message is appended.
C5_State ==
    /\ Len(calls) <= 2
    /\ Len(calls) >= 1 => (calls[1].with_tools /\ calls[1].tools = tools)
    /\ Len(calls) = 2 => (~calls[2].with_tools /\ calls[2].tools = {})

C5_Step ==
    Len(calls) = 2 =>
        (executed' = executed /\ messages' = messages /\ calls' = calls)

\* C5: in every state C5_State holds and every step satisfies C5_Step: one
\* dispatch round, two completion calls at most, tools on the first only.
C5_OneDispatchRound == []C5_State /\ [][C5_Step]_vars

C5_Witness ==
    /\ pc = "done"
    /\ Len(calls) = 2
    /\ Len(executed) >= 1
    /\ HasToolCalls(final_res)

(* ------------------------------- C6 ------------------------------------ *)
\* C6 as stated: a turn whose first response requested tool calls and in
\* which no completion call and no JSON decoding of arguments failed
\* returns exactly the second response's content.
C6_AsStated ==
    (/\ pc = "done"
     /\ FirstArrived
     /\ HasToolCalls(msg)
     /\ caught.at \notin {"first", "second", "json.loads"}) =>
        (final_res # NoResponse /\ ret = Return(final_res.content))

\* C6 amended: the same, for a turn in which moreover no call of
\* google_search(**args) raised on binding the decoded arguments, that is,
\* a turn in which no exception was raised.
C6_ReturnsSecondContent ==
    (/\ pc = "done"
     /\ FirstArrived
     /\ HasToolCalls(msg)
     /\ caught = NoException) =>
        (final_res # NoResponse /\ ret = Return(final_res.content))

C6_Witness ==
    /\ pc = "done"
    /\ HasToolCalls(msg)
    /\ caught = NoException
    /\ Len(executed) >= 1
    /\ msg.content # final_res.content
    /\ ret = Return("Acme is")

(* ------------------------------- C7 ------------------------------------ *)
\* The conversation sent with the first completion call.
SentFirst == calls[1].messages

\* The number of entries of the history that satisfy P.
CountEntries(P(_)) == Cardinality({k \in 1..Len(history) : P(history[k])})

IsPair(entry) == entry.shape = "pair"
PairWithAssistant(entry) ==
    IsPair(entry) /\ Len(entry.elems) > 1 /\ Truthy(entry.elems[2])
DictWithRole(entry, role) == entry.shape = "dict" /\ entry.msg.role = role
DictAssistant(entry) == DictWithRole(entry, "assistant")
DictSystem(entry) == DictWithRole(entry, "system")
DictUser(entry) == DictWithRole(entry, "user")

\* The pair-shaped entries' part of C7: each pair with a non-empty
\* assistant value has its assistant message in the conversation, and no
\* other pair has one.
C7_Pairs ==
    /\ \A k \in 1..Len(history) :
        PairWithAssistant(history[k]) =>
            \E j \in 1..Len(SentFirst) :
                SentFirst[j] = AssistantMsg(history[k].elems[2])
    /\ Len(WithRole(SentFirst, "assistant")) =
            CountEntries(PairWithAssistant) + CountEntries(DictAssistant)
    /\ Len(WithRole(SentFirst, "user")) =
            CountEntries(IsPair) + CountEntries(DictUser) + 1

C8_NormalizationCompletes ==
    pc = "done" => Len(calls) >= 1

(* ------------------------------- C9 ------------------------------------ *)
\* The search adapter failed inside its try block: the POST raised a
\* network error, or the payload could not be read as a JSON object.
AdapterFailed(o) ==
    \/ o.kind = "neterr"
    \/ o.kind = "response" /\ o.body # "object"

\* A tool message that carries the adapter's error text.
IsSearchError(m) == m.role = "tool" /\ StartsWith(m.content, "Search Error")

\* The google_search requests of the first response.
SearchRequests ==
    {i \in 1..Len(msg.tool_calls) : msg.tool_calls[i].name = "google_search"}

\* C9, the step: when the adapter fails for a request, its error text is
\* appended as the tool message of that request, no exception reaches the
\* handler and the loop goes on with the next request.
C9_Step ==
    (pc = "search" /\ AdapterFailed(http')) =>
        /\ Len(messages') = Len(messages) + 1
        /\ SubSeq(messages', 1, Len(messages)) = messages
        /\ messages'[Len(messages')].tool_call_id = tool_call.id
        /\ IsSearchError(messages'[Len(messages')])
        /\ pc' = "dispatch"
        /\ idx' = idx + 1
        /\ caught' = NoException
        /\ ret' = Running

\* C9, the turn: with an adapter failure among the tool messages, the
\* second completion call is issued over those messages once every
\* google_search request was executed, and a turn that ends without an
\* exception returns the second response's content.
C9_State ==
    (\E k \in 1..Len(messages) : IsSearchError(messages[k])) =>
        /\ Len(calls) = 2 =>
            /\ Len(executed) = Cardinality(SearchRequests)
            /\ calls[2].messages = messages
        /\ (pc = "done" /\ caught = NoException) =>
            /\ Len(calls) = 2
            /\ final_res # NoResponse
            /\ ret = Return(final_res.content)

C10_State ==
    caught # NoException =>
        /\ pc = "done"
        /\ ret.kind = "return"
        /\ StartsWith(ret.value, "System Error")
        /\ caught.at = "first" => (Len(calls) = 1 /\ executed = <<>>)
        /\ caught.at \in {"json.loads", "google_search(**args)"} =>
            /\ Len(calls) = 1
            /\ \A j \in 1..Len(executed) :
                \E i \in 1..(idx - 1) : executed[j].id = msg.tool_calls[i].id
        /\ caught.at = "second" => Len(calls) = 2

C10_Step ==
    caught # NoException =>
        (executed' = executed /\ calls' = calls /\ ret' = ret)

\* C10: a failed completion call or argument payload aborts the rest of
\* the turn, in every state (C10_State) and in every step (C10_Step).
C10_FailureAborts == []C10_State /\ [][C10_Step]_vars

C10_Witness ==
    /\ pc = "done"
    /\ caught.at = "json.loads"
    /\ idx = 2
    /\ Len(executed) = 1
    /\ StartsWith(ret.value, "System Error")

(* ------------------------------- C11 ----------------------------------- *)
\* The provider call failed in the sense of the search adapter's contract:
\* a network error, a status that is not 2xx, or a payload that is not a
\* JSON object.
ProviderFailed(o) ==
    \/ o.kind = "neterr"
    \/ o.kind = "response" /\ o.status \notin 200..299
    \/ o.kind = "response" /\ o.body # "object"

\* The text google_search returned for the last POST: the content of the
\* tool message appended at line 132.
LastResult == messages[Len(messages)].content

\* A serialized result list, as json.dumps gives it.
IsSerializedList(text) == StartsWith(text, "[")

\* C11: for every failure of the provider call (network error, non-2xx
\* status, malformed payload) google_search returns an error string, not a
\* serialized result list.
C11_FailureIsErrorString ==
    (http # NoHttp /\ ProviderFailed(http)) =>
        /\ StartsWith(LastResult, "Search Error")
        /\ ~IsSerializedList(LastResult)

(* ------------------------------- C12 ----------------------------------- *)
\* A successful provider response: status 200 and a JSON object with an
\* organic array.
ProviderSucceeded(o) ==
    /\ o.kind = "response"
    /\ o.status = 200
    /\ o.body = "object"
    /\ o.has_organic

\* The JSON text of a list of at most two results, written out.
FirstTwoAsText(organic) ==
    IF Len(organic) = 0 THEN "[]"
    ELSE IF Len(organic) = 1 THEN "[\"" \o organic[1] \o "\"]"
    ELSE "[\"" \o organic[1] \o "\", \"" \o organic[2] \o "\"]"

\* C12: for a successful response whose organic array has length L,
\* google_search returns the serialization of its first min(L, 2) entries in
\* their order.
C12_FirstTwoResults ==
    (http # NoHttp /\ ProviderSucceeded(http)) =>
        LastResult = FirstTwoAsText(http.organic)

C12_Witness ==
    /\ ProviderSucceeded(http)
    /\ Len(http.organic) = 3
    /\ messages[Len(messages)].role = "tool"
    /\ LastResult = "[\"r1\", \"r2\"]"

(* ------------------------------- C13 ----------------------------------- *)
\* C13: no step of a turn changes the caller's history (nor the message):
\* what the turn appends goes to its own working conversation only.
C13_HistoryNotMutated == [][history' = history /\ message' = message]_vars

C13_Witness ==
    /\ pc = "done"
    /\ Len(history) = 2
    /\ \E k \in 1..Len(history) : history[k].shape = "dict"
    /\ Len(calls) = 2
    /\ Len(messages) > Len(calls[1].messages) + 1

(* ------------------------------- C15 ----------------------------------- *)
\* The ids of the tool_calls of the assistant messages before position k.
EarlierCallIds(k) ==
    UNION { { messages[j].tool_calls[i].id :
                i \in 1..Len(messages[j].tool_calls) } :
            j \in {n \in 1..(k - 1) : messages[n].role = "assistant"} }

CallsWithTools(b) == SelectSeq(calls, LAMBDA c : c.with_tools = b)

\* The executions of google_search made for the request with an id.
ExecutionsOf(id) == SelectSeq(executed, LAMBDA x : x.id = id)

\* The tool messages the turn has appended to the conversation.
TurnToolMessages ==
    IF Len(calls) = 0 THEN <<>>
    ELSE WithRole(SubSeq(messages, Len(calls[1].messages) + 1, Len(messages)),
                  "tool")

\* C16: each completion call is issued at most once, also after it failed;
\* each request is executed at most once, and each execution is one POST
\* with one result, whatever its outcome.
C16_NoRetry ==
    /\ Len(CallsWithTools(TRUE)) <= 1
    /\ Len(CallsWithTools(FALSE)) <= 1
    /\ caught.at = "first" => Len(calls) = 1
    /\ caught.at = "second" => Len(calls) = 2
    /\ \A i \in 1..Len(msg.tool_calls) :
        Len(ExecutionsOf(msg.tool_calls[i].id)) <= 1
    /\ \A j \in 1..Len(executed) :
        \E i \in 1..Len(msg.tool_calls) : executed[j].id = msg.tool_calls[i].id
    /\ Len(TurnToolMessages) =
            Len(executed) - (IF pc = "search" THEN 1 ELSE 0)

C16_Witness ==
    /\ pc = "done"
    /\ caught.at = "second"
    /\ Len(calls) = 2
    /\ Len(executed) = 2
    /\ \E k \in 1..Len(messages) : IsSearchError(messages[k])

(* ------------------------------- C14 ----------------------------------- *)
\* The steps chat takes by itself, without waiting for a peer.
LocalStep ==
    \/ Build
    \/ BuildFails
    \/ FirstCall
    \/ SkipTool
    \/ ArgumentsFail
    \/ CallTool
    \/ SecondCall

\* A turn under the scheduling the code guarantees: the local steps are
\* taken, and a pending completion call ends at the latest with the
\* client's timeout (timeout=120.0, line 83).  The POST of line 32 is given
\* no timeout, so nothing forces it to end: no fairness on ToolReturns.
LiveSpec ==
    /\ Spec
    /\ WF_vars(LocalStep)
    /\ WF_vars(FirstCallFails("APITimeoutError"))
    /\ WF_vars(SecondCallFails("APITimeoutError"))

\* C14: every turn eventually reaches its terminal state, also when a
\* network peer never answers.
C14_TurnTerminates == <>(pc = "done")

(* ------------------------------- C18 ----------------------------------- *)
\* A conversation in role order: a system message, then user and assistant
\* messages in strict alternation, the last one a user message.
RoleOrder(c) ==
    /\ c[1].role = "system"
    /\ \A k \in 2..Len(c) :
        c[k].role = (IF k % 2 = 0 THEN "user" ELSE "assistant")
    /\ c[Len(c)].role = "user"

\* C18 as stated: whatever the history, the conversation of the first
\* completion call is in role order and ends with the new user message.
C18_AsStated ==
    Len(calls) >= 1 =>
        (RoleOrder(SentFirst) /\ SentFirst[Len(SentFirst)] = UserMsg(message))

\* C18 amended: the conversation begins with the system message and ends
\* with the new user message; it is in role order when every entry of the
\* history is a pair with a non-empty assistant value.
C18_RoleOrderForFullPairs ==
    Len(calls) >= 1 =>
        /\ SentFirst[1].role = "system"
        /\ SentFirst[Len(SentFirst)] = UserMsg(message)
        /\ Len(SentFirst) >= 2
        /\ (\A k \in 1..Len(history) : PairWithAssistant(history[k])) =>
            (RoleOrder(SentFirst) /\ Len(SentFirst) = 2 * Len(history) + 2)

C18_Witness ==
    /\ Len(calls) >= 1
    /\ Len(history) = 2
    /\ \A k \in 1..Len(history) : PairWithAssistant(history[k])
    /\ RoleOrder(SentFirst)

(* ------------------------------- C17 ----------------------------------- *)
(* Two invocations of chat, for two sessions, with their steps interleaved *)
(* in any order.  Every variable holds one value per session here: the     *)
(* arguments and the locals of chat belong to the invocation.  The         *)
(* identity, the knowledge context and the tool specs are the definitions  *)
(* USER_NAME, USER_ROLE, GLOBAL_CONTEXT and tools: no step writes them.    *)
Sessions == {"A", "B"}

\* The arguments the presentation layer passes for a session.
SessionHistory(s) ==
    IF s = "A" THEN <<PairEntry(<<"u" \o s, "a" \o s>>)>>
    ELSE <<PairEntry(<<"u" \o s, "">>)>>

SessionMessage(s) == "Q" \o s

\* What the backend may answer to a session's first and second call.
SessionFirstResponses(s) ==
    { Response("I am " \o s, TRUE, NoCalls),
      Response(None, FALSE, <<ToolCallRequest(1, "google_search", ArgsOk)>>),
      Response(None, FALSE,
               <<ToolCallRequest(1, "get_weather", ArgsOk),
                 ToolCallRequest(2, "google_search", ArgsBadJson)>>) }

SessionSecondResponses(s) == { Response("Acme is " \o s, TRUE, NoCalls) }

SessionHttpOutcomes ==
    { HttpOutcome("neterr", 0, None, FALSE, <<>>),
      HttpOutcome("response", 200, "object", TRUE, Organic(1)) }

\* Mutant of Frame: messages is a module-level list that all invocations
\* share.
FrameShared(s) == "A"

\* Line 106: messages is a local of chat, so each invocation has its own.
Frame(s) == s

SessionInit ==
    /\ history = [s \in Sessions |-> SessionHistory(s)]
    /\ message = [s \in Sessions |-> SessionMessage(s)]
    /\ messages = [s \in Sessions |-> <<>>]
    /\ pc = [s \in Sessions |-> "build"]
    /\ msg = [s \in Sessions |-> NoResponse]
    /\ idx = [s \in Sessions |-> 0]
    /\ calls = [s \in Sessions |-> <<>>]
    /\ executed = [s \in Sessions |-> <<>>]
    /\ final_res = [s \in Sessions |-> NoResponse]
    /\ http = [s \in Sessions |-> <<>>]
    /\ caught = [s \in Sessions |-> NoException]
    /\ ret = [s \in Sessions |-> Running]

\* Lines 106-113.
SessionBuild(s) ==
    /\ pc[s] = "build"
    /\ ~BuildRaises(history[s])
    /\ messages' =
        [messages EXCEPT ![Frame(s)] = BuildMessages(history[s], message[s])]
    /\ pc' = [pc EXCEPT ![s] = "first"]
    /\ UNCHANGED <<history, message, msg, idx, calls, executed, final_res,
                   http, caught, ret>>

\* Lines 117-121: the first completion request goes out.
SessionFirstCall(s) ==
    /\ pc[s] = "first"
    /\ calls' = [calls EXCEPT
            ![s] = Append(@, Request(messages[Frame(s)], FirstCallTools))]
    /\ pc' = [pc EXCEPT ![s] = "await1"]
    /\ UNCHANGED <<history, message, messages, msg, idx, executed, final_res,
                   http, caught, ret>>

\* Lines 117-121 raise: lines 141-143.
SessionFirstCallFails(s, e) ==
    /\ pc[s] = "await1"
    /\ pc' = [pc EXCEPT ![s] = "done"]
    /\ caught' = [caught EXCEPT ![s] = Exception("first", e)]
    /\ ret' = [ret EXCEPT ![s] = Return(SystemError(e))]
    /\ UNCHANGED <<history, message, messages, msg, idx, calls, executed,
                   final_res, http>>

\* Lines 122-126 and 138-139: the first response arrives.
SessionFirstCallResponds(s, r) ==
    /\ pc[s] = "await1"
    /\ msg' = [msg EXCEPT ![s] = r]
    /\ IF HasToolCalls(r)
       THEN /\ messages' =
                [messages EXCEPT ![Frame(s)] = Append(@, AsMessage(r))]
            /\ idx' = [idx EXCEPT ![s] = 1]
            /\ pc' = [pc EXCEPT ![s] = "dispatch"]
            /\ ret' = ret
       ELSE /\ pc' = [pc EXCEPT ![s] = "done"]
            /\ ret' = [ret EXCEPT ![s] = Return(ReplyOf(r))]
            /\ UNCHANGED <<messages, idx>>
    /\ UNCHANGED <<history, message, calls, executed, final_res, http,
                   caught>>

\* The request the loop of line 128 is at, in a session.
SessionToolCall(s) == msg[s].tool_calls[idx[s]]

SessionInLoop(s) == pc[s] = "dispatch" /\ idx[s] <= Len(msg[s].tool_calls)

\* Line 129 false.
SessionSkipTool(s) ==
    /\ SessionInLoop(s)
    /\ SessionToolCall(s).name # "google_search"
    /\ idx' = [idx EXCEPT ![s] = @ + 1]
    /\ UNCHANGED <<history, message, messages, pc, msg, calls, executed,
                   final_res, http, caught, ret>>

\* Line 130 or line 131 raises: lines 141-143.
SessionArgumentsFail(s) ==
    /\ SessionInLoop(s)
    /\ SessionToolCall(s).name = "google_search"
    /\ LET args == json_loads(SessionToolCall(s).arguments)
           e == IF args.raises # None
                THEN Exception("json.loads", args.raises)
                ELSE Exception("google_search(**args)", "TypeError")
       IN
        /\ args.raises # None \/ BindRaises(args)
        /\ caught' = [caught EXCEPT ![s] = e]
        /\ ret' = [ret EXCEPT ![s] = Return(SystemError(e.type))]
    /\ pc' = [pc EXCEPT ![s] = "done"]
    /\ UNCHANGED <<history, message, messages, msg, idx, calls, executed,
                   final_res, http>>

\* Lines 130-131 and 24-32: google_search posts the query.
SessionCallTool(s) ==
    /\ SessionInLoop(s)
    /\ SessionToolCall(s).name = "google_search"
    /\ LET args == json_loads(SessionToolCall(s).arguments) IN
        /\ args.raises = None /\ ~BindRaises(args)
        /\ executed' = [executed EXCEPT
                ![s] = Append(@, [id |-> SessionToolCall(s).id,
                                  query |-> args.query])]
    /\ pc' = [pc EXCEPT ![s] = "search"]
    /\ UNCHANGED <<history, message, messages, msg, idx, calls, final_res,
                   http, caught, ret>>

\* Lines 32-36 and 132: the POST ends and the tool message is appended.
\* http keeps every outcome of the session's POSTs here.
SessionToolReturns(s, o) ==
    /\ pc[s] = "search"
    /\ http' = [http EXCEPT ![s] = Append(@, o)]
    /\ LET res == google_search(executed[s][Len(executed[s])].query, o) IN
        messages' = [messages EXCEPT
                ![Frame(s)] = Append(@, ToolResult(SessionToolCall(s), res))]
    /\ idx' = [idx EXCEPT ![s] = @ + 1]
    /\ pc' = [pc EXCEPT ![s] = "dispatch"]
    /\ UNCHANGED <<history, message, msg, calls, executed, final_res, caught,
                   ret>>

\* Line 135: the second completion request goes out.
SessionSecondCall(s) ==
    /\ pc[s] = "dispatch"
    /\ idx[s] > Len(msg[s].tool_calls)
    /\ calls' = [calls EXCEPT
            ![s] = Append(@, Request(messages[Frame(s)], SecondCallTools))]
    /\ pc' = [pc EXCEPT ![s] = "await2"]
    /\ UNCHANGED <<history, message, messages, msg, idx, executed, final_res,
                   http, caught, ret>>

\* Line 135 raises: lines 141-143.
SessionSecondCallFails(s, e) ==
    /\ pc[s] = "await2"
    /\ pc' = [pc EXCEPT ![s] = "done"]
    /\ caught' = [caught EXCEPT ![s] = Exception("second", e)]
    /\ ret' = [ret EXCEPT ![s] = Return(SystemError(e))]
    /\ UNCHANGED <<history, message, messages, msg, idx, calls, executed,
                   final_res, http>>

\* Line 136: the second response arrives and its content is returned.
SessionSecondCallResponds(s, r) ==
    /\ pc[s] = "await2"
    /\ final_res' = [final_res EXCEPT ![s] = r]
    /\ pc' = [pc EXCEPT ![s] = "done"]
    /\ ret' = [ret EXCEPT ![s] = Return(ReplyOf(r))]
    /\ UNCHANGED <<history, message, messages, msg, idx, calls, executed,
                   http, caught>>

SessionNext ==
    \E s \in Sessions :
        \/ SessionBuild(s)
        \/ SessionFirstCall(s)
        \/ \E e \in BackendErrors : SessionFirstCallFails(s, e)
        \/ \E r \in SessionFirstResponses(s) : SessionFirstCallResponds(s, r)
        \/ SessionSkipTool(s)
        \/ SessionArgumentsFail(s)
        \/ SessionCallTool(s)
        \/ \E o \in SessionHttpOutcomes : SessionToolReturns(s, o)
        \/ SessionSecondCall(s)
        \/ \E e \in BackendErrors : SessionSecondCallFails(s, e)
        \/ \E r \in SessionSecondResponses(s) : SessionSecondCallResponds(s, r)

SessionsSpec == SessionInit /\ [][SessionNext]_vars

\* The tool messages of a session's own tool exchange so far.
OwnToolMessages(s) ==
    [j \in 1..Len(http[s]) |->
        ToolMsg(executed[s][j].id,
                google_search(executed[s][j].query, http[s][j]))]

\* The working conversation a session's turn has when it runs alone: its
\* system message, history and user message, then its own tool exchange.
OwnConversation(s) ==
    IF pc[s] = "build" THEN <<>>
    ELSE BuildMessages(SessionHistory(s), SessionMessage(s))
            \o (IF msg[s] # NoResponse /\ HasToolCalls(msg[s])
                THEN <<AsMessage(msg[s])>> \o OwnToolMessages(s)
                ELSE <<>>)

\* The reply a finished turn gives when it runs alone, from the answers the
\* backend gave to this session.
OwnReply(s) ==
    IF caught[s] # NoException THEN SystemError(caught[s].type)
    ELSE IF HasToolCalls(msg[s]) THEN final_res[s].content
    ELSE msg[s].content

\* C17: under every interleaving of two turns, each turn's working
\* conversation and the conversations it sends are made of its own system
\* message, history, user message and tool exchange only, and its reply is
\* the reply of the turn run alone.
C17_TurnsDoNotInterfere ==
    \A s \in Sessions :
        /\ messages[s] = OwnConversation(s)
        /\ Len(calls[s]) >= 1 =>
            calls[s][1].messages =
                BuildMessages(SessionHistory(s), SessionMessage(s))
        /\ Len(calls[s]) = 2 => calls[s][2].messages = OwnConversation(s)
        /\ pc[s] = "done" => ret[s] = Return(OwnReply(s))
        /\ history[s] = SessionHistory(s)

C17_Witness ==
    /\ pc["A"] = "search"
    /\ pc["B"] = "await2"
    /\ Len(http["B"]) = 1
    /\ messages["A"] # messages["B"]
    /\ messages["A"][Len(messages["A"])] = AsMessage(msg["A"])

====
